---- MODULE Spec2Model ----
(***************************************************************************)
(* Model of the MUI translator service (src/app.py): the code-likeness     *)
(* classifier, the extractor, the gateway reconciliation, the raw-text     *)
(* reconstructor, the report generator and the /translate handler.         *)
(*                                                                         *)
(* A Python str is a sequence of characters.  A character of a document is *)
(* a pair <<kind, x>>: <<"char", c>> is the character c, <<"open", t>> is   *)
(* the attribute-free start tag <t> and <<"close", t>> the end tag </t>.    *)
(* A tag is kept as one unit because every snippet the code searches for   *)
(* starts with a whole start tag and ends with a whole end tag, so a match *)
(* of str.replace always falls on tag boundaries.  A string handed to the  *)
(* classifier is a sequence of one-character strings.                      *)
(***************************************************************************)
EXTENDS Integers, Sequences, FiniteSets, TLC

VARIABLES
    pc,                   \* position of the /translate handler
    upload,               \* what the request carries: "ok", "nofile", "noname", "badext"
    file_content,         \* the decoded upload, once read (line 240)
    api_key,              \* whether CLAUDE_API_KEY is set
    original_structure,   \* MUITranslator.original_structure
    translatable_texts,   \* MUITranslator.translatable_texts
    response,             \* the gateway's answer to requests.post
    calls,                \* number of requests.post calls made by the request
    translations,         \* result of translate_texts
    reconstructed_content,\* result of reconstruct_mui_file
    report,               \* result of generate_translation_report
    written,              \* files written to the temporary directory
    result,               \* the HTTP answer: "none", "zip", "400", "500"
    error,                \* which failure produced the error answer
    cl_pc,                \* classifier run: "call" before is_code_like, "returned" after
    cl_text,              \* classifier run: the argument
    cl_out                \* classifier run: the value returned

vars == <<pc, upload, file_content, api_key, original_structure, translatable_texts,
          response, calls, translations, reconstructed_content, report, written,
          result, error, cl_pc, cl_text, cl_out>>

pipeVars == <<pc, upload, file_content, api_key, original_structure, translatable_texts,
              response, calls, translations, reconstructed_content, report, written,
              result, error>>

classVars == <<cl_pc, cl_text, cl_out>>

-----------------------------------------------------------------------------
(* Bounds of the model *)

MaxItems == 2
MaxLines == 2
MaxStrLen == 3

-----------------------------------------------------------------------------
(* Characters *)

UpperCase == {"A","B","C","D","E","F","G","H","I","J","K","L","M",
              "N","O","P","Q","R","S","T","U","V","W","X","Y","Z"}
LowerCase == {"a","b","c","d","e","f","g","h","i","j","k","l","m",
              "n","o","p","q","r","s","t","u","v","w","x","y","z"}
Digits == {"0","1","2","3","4","5","6","7","8","9"}
HexDigits == Digits \cup {"A","B","C","D","E","F","a","b","c","d","e","f"}
IdChars == LowerCase \cup UpperCase \cup Digits \cup {".", "_", "-"}
Whitespace == {" ", "\t", "\n", "\r"}
BOM == "BOM"

Ch(c) == <<"char", c>>
Open(t) == <<"open", t>>
Close(t) == <<"close", t>>

\* a str of plain characters as document characters, and back
RECURSIVE Chars(_)
Chars(s) == IF s = <<>> THEN <<>> ELSE <<Ch(Head(s))>> \o Chars(Tail(s))

AllIn(s, S) == \A i \in 1..Len(s) : s[i] \in S

-----------------------------------------------------------------------------
(* str.strip, str.split, str.replace *)

RECURSIVE LStrip(_)
LStrip(s) == IF s # <<>> /\ Head(s) \in Whitespace THEN LStrip(Tail(s)) ELSE s

RECURSIVE RStrip(_)
RStrip(s) ==
    IF s # <<>> /\ s[Len(s)] \in Whitespace THEN RStrip(SubSeq(s, 1, Len(s) - 1)) ELSE s

Strip(s) == RStrip(LStrip(s))

\* the same on document characters
Plain(ds) == [i \in 1..Len(ds) |-> ds[i][2]]
IsWs(d) == d[1] = "char" /\ d[2] \in Whitespace

RECURSIVE DLStrip(_)
DLStrip(ds) == IF ds # <<>> /\ IsWs(Head(ds)) THEN DLStrip(Tail(ds)) ELSE ds

RECURSIVE DRStrip(_)
DRStrip(ds) ==
    IF ds # <<>> /\ IsWs(ds[Len(ds)]) THEN DRStrip(SubSeq(ds, 1, Len(ds) - 1)) ELSE ds

DStrip(ds) == DRStrip(DLStrip(ds))

\* s.split('\n'): the pieces between the line feeds, empty pieces included
RECURSIVE SplitLines(_, _)
SplitLines(ds, cur) ==
    IF ds = <<>> THEN <<cur>>
    ELSE IF Head(ds) = Ch("\n") THEN <<cur>> \o SplitLines(Tail(ds), <<>>)
    ELSE SplitLines(Tail(ds), Append(cur, Head(ds)))

Split(ds) == SplitLines(ds, <<>>)

\* positions at which old occurs in s
Occurrences(s, old) ==
    {i \in 1..(Len(s) - Len(old) + 1) : SubSeq(s, i, i + Len(old) - 1) = old}

Min(S) == CHOOSE x \in S : \A y \in S : x <= y

\* s.replace(old, new, 1)
ReplaceFirst(s, old, new) ==
    LET occ == Occurrences(s, old) IN
    IF occ = {} THEN s
    ELSE LET i == Min(occ) IN
         SubSeq(s, 1, i - 1) \o new \o SubSeq(s, i + Len(old), Len(s))

\* s.replace(BOM, '')
RECURSIVE RemoveBOM(_)
RemoveBOM(ds) ==
    IF ds = <<>> THEN <<>>
    ELSE IF Head(ds) = Ch(BOM) THEN RemoveBOM(Tail(ds))
    ELSE <<Head(ds)>> \o RemoveBOM(Tail(ds))

\* lines 34-38: drop a leading BOM, then every BOM
NormalizeBOM(ds) ==
    RemoveBOM(IF ds # <<>> /\ Head(ds) = Ch(BOM) THEN Tail(ds) ELSE ds)

-----------------------------------------------------------------------------
(* is_code_like *)

\* the strings on which a pattern ending in $ may end: re's $ matches at the
\* end of the string and also just before a line feed that ends the string
DollarEnds(s) ==
    {s} \cup (IF s # <<>> /\ s[Len(s)] = "\n" THEN {SubSeq(s, 1, Len(s) - 1)} ELSE {})

\* ^[A-Z_][A-Z0-9_]*$
FullUpperId(s) ==
    /\ s # <<>>
    /\ s[1] \in UpperCase \cup {"_"}
    /\ AllIn(s, UpperCase \cup Digits \cup {"_"})

\* ^\d+$
FullDigits(s) == s # <<>> /\ AllIn(s, Digits)

\* ^[a-zA-Z0-9._-]+\.[a-zA-Z0-9._-]+$
FullDotted(s) ==
    /\ AllIn(s, IdChars)
    /\ \E i \in 2..(Len(s) - 1) : s[i] = "."

\* ^#[0-9A-Fa-f]+$
FullHex(s) ==
    /\ Len(s) >= 2
    /\ s[1] = "#"
    /\ AllIn(Tail(s), HexDigits)

\* ^\$[a-zA-Z_]   (no $ at the end: a prefix)
DollarVar(s) ==
    /\ Len(s) >= 2
    /\ s[1] = "$"
    /\ s[2] \in LowerCase \cup UpperCase \cup {"_"}

MatchesPattern(s) ==
    \/ \E e \in DollarEnds(s) : FullUpperId(e)
    \/ \E e \in DollarEnds(s) : FullDigits(e)
    \/ \E e \in DollarEnds(s) : FullDotted(e)
    \/ \E e \in DollarEnds(s) : FullHex(e)
    \/ DollarVar(s)

is_code_like(text) ==
    IF MatchesPattern(text) THEN TRUE
    ELSE IF Len(text) < 2 THEN TRUE
    ELSE FALSE

-----------------------------------------------------------------------------
(* ET.fromstring: the element tree of a document, or a ParseError.         *)
(* The tree is the list of its elements in document order; an element is   *)
(* [tag, text, tail, parent], parent being the index of its parent (0 for  *)
(* the root), text the characters before its first child and tail the      *)
(* characters after its end tag.                                           *)

ParseStart ==
    [ok |-> TRUE, elems |-> <<>>, stack |-> <<>>, inText |-> FALSE, last |-> 0,
     closed |-> FALSE]

ParseStep(st, d) ==
    IF ~st.ok THEN st
    ELSE IF d[1] = "open" THEN
        IF st.closed THEN [st EXCEPT !.ok = FALSE]      \* junk after document element
        ELSE LET parent == IF st.stack = <<>> THEN 0 ELSE st.stack[Len(st.stack)]
                 e == [tag |-> d[2], text |-> <<>>, tail |-> <<>>, parent |-> parent]
             IN [st EXCEPT !.elems = Append(@, e),
                           !.stack = Append(@, Len(st.elems) + 1),
                           !.inText = TRUE]
    ELSE IF d[1] = "close" THEN
        IF st.stack = <<>> \/ st.elems[st.stack[Len(st.stack)]].tag # d[2]
        THEN [st EXCEPT !.ok = FALSE]                   \* mismatched tag
        ELSE [st EXCEPT !.stack = SubSeq(@, 1, Len(@) - 1),
                        !.last = st.stack[Len(st.stack)],
                        !.inText = FALSE,
                        !.closed = (Len(st.stack) = 1)]
    ELSE IF d[2] = "<" THEN [st EXCEPT !.ok = FALSE]    \* invalid token
    ELSE IF st.stack = <<>> THEN
        IF d[2] \in Whitespace THEN st ELSE [st EXCEPT !.ok = FALSE]
    ELSE IF st.inText THEN
        [st EXCEPT !.elems[st.stack[Len(st.stack)]].text = Append(@, d[2])]
    ELSE [st EXCEPT !.elems[st.last].tail = Append(@, d[2])]

RECURSIVE ParseFrom(_, _)
ParseFrom(st, ds) == IF ds = <<>> THEN st ELSE ParseFrom(ParseStep(st, Head(ds)), Tail(ds))

\* [ok, elems]: ok is FALSE where ET.fromstring raises ParseError
Parse(ds) ==
    LET st == ParseFrom(ParseStart, ds) IN
    [ok |-> st.ok /\ st.closed, elems |-> IF st.ok /\ st.closed THEN st.elems ELSE <<>>]

-----------------------------------------------------------------------------
(* parse_mui_file.extract_texts *)

\* the children of element p, in document order
RECURSIVE ChildrenFrom(_, _, _)
ChildrenFrom(elems, p, i) ==
    IF i > Len(elems) THEN <<>>
    ELSE (IF elems[i].parent = p THEN <<i>> ELSE <<>>) \o ChildrenFrom(elems, p, i + 1)

Children(elems, p) == ChildrenFrom(elems, p, p + 1)

\* f"<{tag}>{text}</{tag}>"
Snippet(tag, text) == <<Open(tag)>> \o Chars(text) \o <<Close(tag)>>

\* lines 52-61: what one child contributes itself
Emit(child, current_path) ==
    IF child.text # <<>> /\ Strip(child.text) # <<>>
    THEN LET text == Strip(child.text) IN
         IF ~is_code_like(text)
         THEN <<[path |-> current_path, tag |-> child.tag, original_text |-> text,
                 element_full_match |-> Snippet(child.tag, text)]>>
         ELSE <<>>
    ELSE <<>>

\* extract_texts that descends only into the elements it did not emit
RECURSIVE extract_texts_no_descent(_, _, _)
RECURSIVE ExtractChildren_no_descent(_, _, _)
ExtractChildren_no_descent(elems, kids, path) ==
    IF kids = <<>> THEN <<>>
    ELSE LET child == elems[Head(kids)]
             current_path == Append(path, child.tag)
             own == Emit(child, current_path)
         IN own
            \o (IF own = <<>> THEN extract_texts_no_descent(elems, Head(kids), current_path)
                ELSE <<>>)
            \o ExtractChildren_no_descent(elems, Tail(kids), path)
extract_texts_no_descent(elems, element, path) ==
    ExtractChildren_no_descent(elems, Children(elems, element), path)

\* lines 47-64; a path is the sequence of the tags that "/" joins
RECURSIVE extract_texts(_, _, _)
RECURSIVE ExtractChildren(_, _, _)
ExtractChildren(elems, kids, path) ==
    IF kids = <<>> THEN <<>>
    ELSE LET child == elems[Head(kids)]
             current_path == Append(path, child.tag)
         IN Emit(child, current_path)
            \o extract_texts(elems, Head(kids), current_path)
            \o ExtractChildren(elems, Tail(kids), path)
extract_texts(elems, element, path) ==
    ExtractChildren(elems, Children(elems, element), path)

\* parse_mui_file: [ok, structure, texts]
parse_mui_file(content) ==
    LET normalized == NormalizeBOM(content)
        tree == Parse(normalized)
    IN IF tree.ok
       THEN [ok |-> TRUE, structure |-> normalized,
             texts |-> extract_texts(tree.elems, 1, <<>>)]
       ELSE [ok |-> FALSE, structure |-> <<>>, texts |-> <<>>]

-----------------------------------------------------------------------------
(* translate_texts *)

\* line 99: the credential check
KeyMissing_never(key) == FALSE

KeyMissing(key) == ~key

\* line 103
texts_list(texts) == [i \in 1..Len(texts) |-> texts[i].original_text]

\* line 148: [line.strip() for line in translated_text.split('\n') if line.strip()]
RECURSIVE NonBlankStripped(_)
NonBlankStripped(lines) ==
    IF lines = <<>> THEN <<>>
    ELSE (IF DStrip(Head(lines)) # <<>> THEN <<DStrip(Head(lines))>> ELSE <<>>)
         \o NonBlankStripped(Tail(lines))

\* lines 145-148: the translations the gateway's text holds
GatewayLines(text) == NonBlankStripped(Split(DStrip(text)))

\* lines 150-154: while len(translations) < len(texts_list): append the original
RECURSIVE Backfill(_, _)
Backfill(trans, originals) ==
    IF Len(trans) < Len(originals)
    THEN Backfill(Append(trans, Chars(originals[Len(trans) + 1])), originals)
    ELSE trans

\* lines 138-160 after the call: [ok, translations]
translate_texts(texts, resp) ==
    IF resp.status # 200 THEN [ok |-> FALSE, translations |-> <<>>]
    ELSE IF resp.shape # "ok" THEN [ok |-> FALSE, translations |-> <<>>]
    ELSE [ok |-> TRUE,
          translations |-> Backfill(GatewayLines(resp.text), texts_list(texts))]

-----------------------------------------------------------------------------
(* reconstruct_mui_file *)

\* line 171 without the end tag
TranslatedMatch_unclosed(tag, translation) == <<Open(tag)>> \o translation

\* line 171: f"<{item['tag']}>{translations[i]}</{item['tag']}>"
TranslatedMatch(tag, translation) == <<Open(tag)>> \o translation \o <<Close(tag)>>

\* lines 168-174: the substitutions of items i, i+1, ...
RECURSIVE Substitute(_, _, _, _)
Substitute(content, texts, trans, i) ==
    IF i > Len(texts) THEN content
    ELSE IF i <= Len(trans)
    THEN Substitute(ReplaceFirst(content, texts[i].element_full_match,
                                 TranslatedMatch(texts[i].tag, trans[i])),
                    texts, trans, i + 1)
    ELSE Substitute(content, texts, trans, i + 1)

\* lines 177-182 with the validation left out
StillWellFormed_unchecked(content) == TRUE

\* lines 177-182: ET.fromstring(reconstructed_content) does not raise
StillWellFormed(content) == Parse(content).ok

\* [ok, content]; content is the candidate text, returned only when ok
reconstruct_mui_file(structure, texts, trans) ==
    LET content == Substitute(structure, texts, trans, 1) IN
    [ok |-> StillWellFormed(content), content |-> content]

-----------------------------------------------------------------------------
(* generate_translation_report: the count of the header and the records;   *)
(* the title and the timestamp of the header are left out                  *)

RECURSIVE ReportRecords(_, _, _)
ReportRecords(texts, trans, i) ==
    IF i > Len(texts) THEN <<>>
    ELSE (IF i <= Len(trans)
          THEN <<[tag |-> texts[i].tag, original |-> texts[i].original_text,
                  translation |-> trans[i], path |-> texts[i].path]>>
          ELSE <<>>)
         \o ReportRecords(texts, trans, i + 1)

generate_translation_report(texts, trans) ==
    [count |-> Len(trans), records |-> ReportRecords(texts, trans, 1)]

-----------------------------------------------------------------------------
(* Inputs *)

Leaf(tag, text) == <<Open(tag)>> \o Chars(text) \o <<Close(tag)>>

Items ==
    { Leaf("a", <<"O", "k">>),                                     \* translatable
      Leaf("a", <<" ", "O", "k", " ">>),                           \* padded
      Leaf("b", <<"I", "D">>),                                     \* code-like
      Leaf("b", <<"N", "o">>),                                     \* translatable
      <<Open("c")>> \o Leaf("a", <<"O", "k">>) \o <<Close("c")>>,  \* parent without text
      <<Open("c"), Ch("O"), Ch("k")>> \o Leaf("a", <<"O", "k">>) \o <<Close("c")>>,
      Chars(<<"H", "i">>),                                         \* bare text
      <<Open("a")>> }                                              \* unclosed

RECURSIVE Concat(_)
Concat(ss) == IF ss = <<>> THEN <<>> ELSE Head(ss) \o Concat(Tail(ss))

SeqsUpTo(S, n) == UNION {[1..k -> S] : k \in 0..n}

Documents ==
    { pre \o <<Open("r")>> \o Concat(items) \o <<Close("r")>> :
        pre \in {<<>>, <<Ch(BOM)>>}, items \in SeqsUpTo(Items, MaxItems) }

LinePool ==
    { Chars(<<"O", "k">>),                          \* equal to an original text
      Chars(<<"T", "a">>),
      Chars(<<" ">>),                               \* blank
      <<Ch("T"), Close("a"), Open("a"), Ch("U")>>,  \* carries markup, balanced
      Chars(<<"<">>) }                              \* carries markup, broken

RECURSIVE JoinLines(_)
JoinLines(lines) ==
    IF lines = <<>> THEN <<>>
    ELSE IF Len(lines) = 1 THEN Head(lines)
    ELSE Head(lines) \o <<Ch("\n")>> \o JoinLines(Tail(lines))

Responses ==
    { [status |-> 200, shape |-> "ok", text |-> JoinLines(lines)] :
        lines \in SeqsUpTo(LinePool, MaxLines) }
    \cup { [status |-> 500, shape |-> "ok", text |-> <<>>],
           [status |-> 200, shape |-> "malformed", text |-> <<>>] }

NoResponse == [status |-> 0, shape |-> "none", text |-> <<>>]
NoReport == [count |-> 0, records |-> <<>>]

ClassAlphabet == {"A", "Z", "a", "z", "1", "_", ".", "-", "#", "$", " ", "\n"}

Strings == SeqsUpTo(ClassAlphabet, MaxStrLen)

-----------------------------------------------------------------------------
(* The /translate handler, translate_mui_file *)

Init ==
    /\ pc = "start"
    /\ upload \in {"ok", "nofile", "noname", "badext"}
    /\ file_content = <<>>
    /\ api_key \in BOOLEAN
    /\ original_structure = <<>>
    /\ translatable_texts = <<>>
    /\ response = NoResponse
    /\ calls = 0
    /\ translations = <<>>
    /\ reconstructed_content = <<>>
    /\ report = NoReport
    /\ written = <<>>
    /\ result = "none"
    /\ error = "none"
    /\ cl_pc = "idle"
    /\ cl_text = <<>>
    /\ cl_out = FALSE

Fail(code, kind) ==
    /\ pc' = "done"
    /\ result' = code
    /\ error' = kind

\* lines 228-240
CheckUpload ==
    /\ pc = "start"
    /\ IF upload # "ok"
       THEN /\ Fail("400", upload)
            /\ UNCHANGED file_content
       ELSE /\ file_content' \in Documents
            /\ pc' = "parse"
            /\ UNCHANGED <<result, error>>
    /\ UNCHANGED <<upload, api_key, original_structure, translatable_texts,
                   response, calls, translations, reconstructed_content, report, written,
                   classVars>>

\* lines 243-250
DoParse ==
    /\ pc = "parse"
    /\ LET r == parse_mui_file(file_content) IN
       IF ~r.ok
       THEN /\ Fail("500", "parse")
            /\ UNCHANGED <<original_structure, translatable_texts>>
       ELSE /\ original_structure' = r.structure
            /\ translatable_texts' = r.texts
            /\ IF r.texts = <<>>
               THEN Fail("400", "notext")
               ELSE /\ pc' = "translate"
                    /\ UNCHANGED <<result, error>>
    /\ UNCHANGED <<upload, file_content, api_key, response, calls, translations,
                   reconstructed_content, report, written, classVars>>

\* lines 252-254 and 97-160
DoTranslate ==
    /\ pc = "translate"
    /\ IF KeyMissing(api_key)
       THEN /\ Fail("500", "nokey")
            /\ UNCHANGED <<response, calls, translations>>
       ELSE \E resp \in Responses :
            /\ response' = resp
            /\ calls' = calls + 1
            /\ LET r == translate_texts(translatable_texts, resp) IN
               IF r.ok
               THEN /\ translations' = r.translations
                    /\ pc' = "reconstruct"
                    /\ UNCHANGED <<result, error>>
               ELSE /\ Fail("500", "gateway")
                    /\ UNCHANGED translations
    /\ UNCHANGED <<upload, file_content, api_key, original_structure, translatable_texts,
                   reconstructed_content, report, written, classVars>>

\* lines 256-258 and 162-188
DoReconstruct ==
    /\ pc = "reconstruct"
    /\ LET r == reconstruct_mui_file(original_structure, translatable_texts, translations) IN
       IF r.ok
       THEN /\ reconstructed_content' = r.content
            /\ pc' = "package"
            /\ UNCHANGED <<result, error>>
       ELSE /\ Fail("500", "reconstruct")
            /\ UNCHANGED reconstructed_content
    /\ UNCHANGED <<upload, file_content, api_key, original_structure, translatable_texts,
                   response, calls, translations, report, written, classVars>>

\* lines 260-293
DoPackage ==
    /\ pc = "package"
    /\ report' = generate_translation_report(translatable_texts, translations)
    /\ written' = <<reconstructed_content, report'>>
    /\ pc' = "done"
    /\ result' = "zip"
    /\ UNCHANGED <<upload, file_content, api_key, original_structure, translatable_texts,
                   response, calls, translations, reconstructed_content, error, classVars>>

Next == CheckUpload \/ DoParse \/ DoTranslate \/ DoReconstruct \/ DoPackage

Spec == Init /\ [][Next]_vars

-----------------------------------------------------------------------------
(* The classifier alone, on every string of the bounded alphabet *)

InitClassify ==
    /\ pc = "idle"
    /\ upload = "ok"
    /\ file_content = <<>>
    /\ api_key = FALSE
    /\ original_structure = <<>>
    /\ translatable_texts = <<>>
    /\ response = NoResponse
    /\ calls = 0
    /\ translations = <<>>
    /\ reconstructed_content = <<>>
    /\ report = NoReport
    /\ written = <<>>
    /\ result = "none"
    /\ error = "none"
    /\ cl_pc = "call"
    /\ cl_text \in Strings
    /\ cl_out = FALSE

Classify ==
    /\ cl_pc = "call"
    /\ cl_out' = is_code_like(cl_text)
    /\ cl_pc' = "returned"
    /\ UNCHANGED <<cl_text, pipeVars>>

NextClassify == Classify

SpecClassify == InitClassify /\ [][NextClassify]_vars

-----------------------------------------------------------------------------
(* Vocabulary of the properties *)

\* parse_mui_file returned (original_structure is set on success only)
Parsed == original_structure # <<>>

\* parse_mui_file has just returned
ParseReturned == pc = "translate" \/ error = "notext"

\* translate_texts returned a list
TranslateReturned == calls = 1 /\ error # "gateway"

\* reconstruct_mui_file was called and returned or raised
ReconstructActed ==
    pc = "package" \/ (pc = "done" /\ (result = "zip" \/ error = "reconstruct"))

\* reconstruct_mui_file returned
ReconstructReturned == pc = "package" \/ result = "zip"

OriginalTree == Parse(original_structure).elems

\* the slash-joined tags of the ancestors of element i below the root, and its own
RECURSIVE PathOf(_, _)
PathOf(elems, i) ==
    IF elems[i].parent = 0 THEN <<>>
    ELSE Append(PathOf(elems, elems[i].parent), elems[i].tag)

Translatable(e) == Strip(e.text) # <<>> /\ ~is_code_like(Strip(e.text))

\* the indices, in document order, of the translatable descendants of the root
RECURSIVE TranslatableFrom(_, _)
TranslatableFrom(elems, i) ==
    IF i > Len(elems) THEN <<>>
    ELSE (IF Translatable(elems[i]) THEN <<i>> ELSE <<>>) \o TranslatableFrom(elems, i + 1)

TranslatableIndices(elems) == TranslatableFrom(elems, 2)

NodeOf(elems, i) ==
    [path |-> PathOf(elems, i), tag |-> elems[i].tag,
     original_text |-> Strip(elems[i].text),
     element_full_match |->
         <<Open(elems[i].tag)>> \o Chars(Strip(elems[i].text)) \o <<Close(elems[i].tag)>>]

OriginalTexts == [i \in 1..Len(translatable_texts) |-> Chars(translatable_texts[i].original_text)]

\* tags and nesting of a tree, texts left out
Shape(elems) == [i \in 1..Len(elems) |-> <<elems[i].tag, elems[i].parent>>]

\* Substitution in which a node matches only an occurrence made of characters of
\* the original text that no earlier node has consumed or produced.
Marked(ds, fresh) == [i \in 1..Len(ds) |-> [d |-> ds[i], fresh |-> fresh]]
Unmarked(ms) == [i \in 1..Len(ms) |-> ms[i].d]

FreshOccurrences(ms, old) ==
    {i \in Occurrences(Unmarked(ms), old) : \A j \in i..(i + Len(old) - 1) : ms[j].fresh}

RECURSIVE IndependentSubstitute(_, _, _, _)
IndependentSubstitute(ms, texts, trans, i) ==
    IF i > Len(texts) THEN Unmarked(ms)
    ELSE LET old == texts[i].element_full_match
             occ == FreshOccurrences(ms, old)
         IN IF i <= Len(trans) /\ occ # {}
            THEN LET at == Min(occ) IN
                 IndependentSubstitute(
                     SubSeq(ms, 1, at - 1)
                         \o Marked(TranslatedMatch(texts[i].tag, trans[i]), FALSE)
                         \o SubSeq(ms, at + Len(old), Len(ms)),
                     texts, trans, i + 1)
            ELSE IndependentSubstitute(ms, texts, trans, i + 1)

\* a str without tags and without "<"
PlainText(ds) == \A j \in 1..Len(ds) : ds[j][1] = "char" /\ ds[j][2] # "<"

HasDuplicateSnippets ==
    \E i, j \in 1..Len(translatable_texts) :
        i < j /\ translatable_texts[i].element_full_match
                   = translatable_texts[j].element_full_match

-----------------------------------------------------------------------------
(* C1 *)

\* C1: when two or more extracted nodes share a match snippet, the text that
\* reconstruct_mui_file returns is the one in which every node replaced an
\* original occurrence of its own: an occurrence consumed or produced by an
\* earlier node is not matched again by a later one.
C1_DuplicatesSubstitutedIndependently ==
    (ReconstructReturned /\ HasDuplicateSnippets) =>
        reconstructed_content =
            IndependentSubstitute(Marked(original_structure, TRUE),
                                  translatable_texts, translations, 1)

(* C2 *)

\* C2: the list translate_texts returns has exactly as many entries as there
\* are nodes, however many lines the accepted gateway response holds.
C2_TranslationsMatchNodeCount ==
    TranslateReturned => Len(translations) = Len(translatable_texts)

(* C3 *)

\* C3: when the gateway returns k < n translations, reconstruction does not
\* raise, and in the reconstructed document every node of index >= k still
\* carries its original text.  (The claim adds that the nodes of index < k
\* carry their translations; this is the part about the missing tail, stated
\* for the responses whose lines are plain text, free of markup characters.)
C3_ShortResponseKeepsTail ==
    LET k == Len(GatewayLines(response.text))
        idx == TranslatableIndices(OriginalTree)
        out == Parse(reconstructed_content).elems
    IN (ReconstructActed /\ k < Len(translatable_texts) /\ PlainText(response.text)) =>
        /\ error # "reconstruct"
        /\ Len(out) = Len(OriginalTree)
        /\ \A i \in (k + 1)..Len(translatable_texts) :
              Chars(Strip(out[idx[i]].text)) = OriginalTexts[i]

(* C4 *)

\* C4: requests.post is called at most once per request, and only once parsing
\* has succeeded, at least one node was extracted and the credential is set; a
\* request that ends with a parse error, no translatable node or a missing
\* credential has made no call.
C4_CallOnlyWhenReady ==
    /\ calls <= 1
    /\ calls >= 1 =>
          /\ Parsed
          /\ Len(translatable_texts) >= 1
          /\ api_key
          /\ upload = "ok"
    /\ error \in {"parse", "notext", "nokey"} => calls = 0

C4_Witness == calls = 1 /\ pc = "reconstruct"

(* C5 *)

\* C5: the artifact (translated file, report, zip) is produced only if every
\* stage succeeded; after a gateway failure or a candidate text that is not
\* well-formed the request ends in an error, nothing is written and the
\* candidate text is not returned.
C5_NoArtifactOnFailure ==
    LET candidate == Substitute(original_structure, translatable_texts, translations, 1) IN
    /\ (result = "zip" \/ written # <<>>) =>
          /\ response.status = 200 /\ response.shape = "ok"
          /\ error = "none"
          /\ Parse(reconstructed_content).ok
          /\ written = <<reconstructed_content, report>>
    /\ (calls = 1 /\ (response.status # 200 \/ response.shape # "ok")) =>
          /\ pc = "done" /\ result = "500" /\ error = "gateway"
          /\ written = <<>> /\ reconstructed_content = <<>>
    /\ (ReconstructActed /\ ~Parse(candidate).ok) =>
          /\ pc = "done" /\ result = "500" /\ error = "reconstruct"
          /\ written = <<>> /\ reconstructed_content = <<>>

C5_Witness ==
    /\ pc = "done" /\ error = "reconstruct" /\ written = <<>>
    /\ ~Parse(Substitute(original_structure, translatable_texts, translations, 1)).ok

(* C6 *)

\* C6: parse_mui_file returns exactly the descendants of the root whose trimmed
\* direct text is non-empty and not code-like, in document (pre-)order, each
\* with its tag, trimmed text, ancestor path and snippet <tag>text</tag>.
C6_ExtractionIsPreorderFilter ==
    ParseReturned =>
        LET elems == Parse(NormalizeBOM(file_content)).elems
            idx == TranslatableIndices(elems)
        IN translatable_texts = [i \in 1..Len(idx) |-> NodeOf(elems, idx[i])]

C6_Witness ==
    /\ Parsed
    /\ pc = "translate"
    /\ \E i \in 1..Len(translatable_texts) : translatable_texts[i].path = <<"c", "a">>
    /\ \E i \in 1..Len(translatable_texts) : translatable_texts[i].path = <<"c">>
    /\ OriginalTree[1].text # <<>>

(* C7 *)

\* C7: reconstructing with translations equal to the original texts succeeds
\* and yields a document that parses to the same tree as the original.
C7_RoundTrip ==
    (ReconstructActed /\ translations = OriginalTexts) =>
        /\ error # "reconstruct"
        /\ Parse(reconstructed_content).ok
        /\ Parse(reconstructed_content).elems = OriginalTree

C7_Witness ==
    /\ pc = "package"
    /\ translations = OriginalTexts
    /\ Len(translatable_texts) >= 2
    /\ GatewayLines(response.text) # <<>>

(* C8 *)

\* C8: whenever reconstruct_mui_file returns, the returned document has the
\* element structure of the input document: same tags, nesting and order.
C8_StructurePreserved ==
    ReconstructReturned =>
        Shape(Parse(reconstructed_content).elems) = Shape(OriginalTree)

(* C9 *)

\* C9: the report's header count is the number of nodes and it is followed by
\* exactly one record per node, in extraction order.
C9_ReportCountsNodes ==
    result = "zip" =>
        /\ report.count = Len(translatable_texts)
        /\ Len(report.records) = Len(translatable_texts)
        /\ \A i \in 1..Len(report.records) :
              report.records[i] =
                  [tag |-> translatable_texts[i].tag,
                   original |-> translatable_texts[i].original_text,
                   translation |-> translations[i],
                   path |-> translatable_texts[i].path]

(* C10 *)

\* C10: is_code_like returns true exactly when the whole string is an upper-case
\* identifier, or all digits, or a dotted identifier, or # and hex digits, or
\* the string starts with $ and a letter or underscore, or is shorter than 2.
C10_ClassifierIsSixRules ==
    cl_pc = "returned" =>
        cl_out = ( \/ FullUpperId(cl_text)
                   \/ FullDigits(cl_text)
                   \/ FullDotted(cl_text)
                   \/ FullHex(cl_text)
                   \/ DollarVar(cl_text)
                   \/ Len(cl_text) < 2 )

====
